---- MODULE Spec2Model ----
(***************************************************************************)
(* Model of src/tjutil/hf_cache.py: the four cache-directory resolvers and *)
(* the two snapshot resolvers, over an explicit environment (os.environ)   *)
(* and an explicit POSIX filesystem.                                       *)
(*                                                                         *)
(* A Python str is a sequence of one-character strings, so that joining,   *)
(* replacing and prefix tests are computed and not assumed.  A filesystem  *)
(* node is a sequence of path components below the root.  Symbolic links   *)
(* and permission bits are not modelled.                                   *)
(***************************************************************************)
EXTENDS Naturals, Sequences, FiniteSets, TLC

VARIABLES
    env,    \* os.environ: a function from the names of the variables that are set
    fs,     \* the filesystem
    env0,   \* os.environ before the first call
    fs0,    \* the filesystem before the first call
    asked,  \* the identifiers callers pass to find_model_dir and find_datasets_dir
    op,     \* the operation called last ("none" before the first call)
    arg,    \* its argument
    out     \* its outcome: return value, log records, raised or not, open() reached or not

vars == <<env, fs, env0, fs0, asked, op, arg, out>>

(***************************************************************************)
(* Bounds of the model.                                                    *)
(***************************************************************************)
MaxIdLen == 3
MaxContentLen == 2

(***************************************************************************)
(* Python values.                                                          *)
(***************************************************************************)
\* Python's None; no str equals it, since every element of a str is one character.
None == <<"<None>">>

SLASH == "/"
NL == "\n"
CR == "\r"

DotCache == <<".", "c", "a", "c", "h", "e">>
Huggingface == <<"h", "u", "g", "g", "i", "n", "g", "f", "a", "c", "e">>
Hub == <<"h", "u", "b">>
Datasets == <<"d", "a", "t", "a", "s", "e", "t", "s">>
Refs == <<"r", "e", "f", "s">>
Main == <<"m", "a", "i", "n">>
Snapshots == <<"s", "n", "a", "p", "s", "h", "o", "t", "s">>
ModelsPrefix == <<"m", "o", "d", "e", "l", "s", "-", "-">>
DatasetsPrefix == <<"d", "a", "t", "a", "s", "e", "t", "s", "-", "-">>
DashDash == <<"-", "-">>

\* str.startswith(prefix)
startswith(s, prefix) ==
    /\ Len(prefix) <= Len(s)
    /\ SubSeq(s, 1, Len(prefix)) = prefix

\* str.endswith(c) for a one-character c
endswith(s, c) == Len(s) > 0 /\ s[Len(s)] = c

\* str.replace(old, new, 1): only the first occurrence is replaced
str_replace_first(s, old, new) ==
    IF \E i \in 1..Len(s) : s[i] = old
    THEN LET i == CHOOSE i \in 1..Len(s) : s[i] = old /\ \A j \in 1..(i - 1) : s[j] # old
         IN  SubSeq(s, 1, i - 1) \o new \o SubSeq(s, i + 1, Len(s))
    ELSE s

\* str.replace(old, new) for a one-character old
RECURSIVE str_replace(_, _, _)
str_replace(s, old, new) ==
    IF s = <<>> THEN <<>>
    ELSE (IF Head(s) = old THEN new ELSE <<Head(s)>>) \o str_replace(Tail(s), old, new)

\* str.rstrip(c) for a one-character c
RECURSIVE str_rstrip(_, _)
str_rstrip(s, c) ==
    IF endswith(s, c) THEN str_rstrip(SubSeq(s, 1, Len(s) - 1), c) ELSE s

(***************************************************************************)
(* posixpath.                                                              *)
(***************************************************************************)
\* one round of the loop of posixpath.join(a, *p)
join_step(path, b) ==
    IF startswith(b, <<SLASH>>) THEN b
    ELSE IF path = <<>> \/ endswith(path, SLASH) THEN path \o b
    ELSE path \o <<SLASH>> \o b

RECURSIVE join_from(_, _)
join_from(path, rest) ==
    IF rest = <<>> THEN path ELSE join_from(join_step(path, Head(rest)), Tail(rest))

\* os.path.join(parts[1], parts[2], ...)
os_path_join(parts) == join_from(Head(parts), Tail(parts))

\* the home directory of the password database, used when HOME is not set
PwDir == <<SLASH, "h">>

\* os.path.expanduser("~")
os_path_expanduser(e) ==
    LET userhome == IF "HOME" \in DOMAIN e THEN e["HOME"] ELSE PwDir
        stripped == str_rstrip(userhome, SLASH)
    IN  IF stripped = <<>> THEN <<SLASH>> ELSE stripped

\* os.path.isabs
os_path_isabs(s) == startswith(s, <<SLASH>>)

(***************************************************************************)
(* The filesystem: fs.dirs is the set of directories (nodes), fs.files maps *)
(* each regular file to its text, fs.bad is the set of regular files whose *)
(* bytes are not valid UTF-8.  The working directory is Cwd.               *)
(***************************************************************************)
Root == <<>>
Cwd == << <<"w">> >>
NoNode == << <<"<enoent>">> >>

\* the components of a path: the pieces between the slashes, empty ones dropped
RECURSIVE components(_, _)
components(s, cur) ==
    IF s = <<>> THEN (IF cur = <<>> THEN <<>> ELSE <<cur>>)
    ELSE IF Head(s) = SLASH
         THEN (IF cur = <<>> THEN <<>> ELSE <<cur>>) \o components(Tail(s), <<>>)
         ELSE components(Tail(s), Append(cur, Head(s)))

\* path resolution, one component at a time: every node walked through is a directory
RECURSIVE walk(_, _, _)
walk(f, node, comps) ==
    IF comps = <<>> THEN node
    ELSE IF node \notin f.dirs THEN NoNode
    ELSE IF Head(comps) = <<".">> THEN walk(f, node, Tail(comps))
    ELSE IF Head(comps) = <<".", ".">>
         THEN walk(f, IF node = Root THEN Root ELSE SubSeq(node, 1, Len(node) - 1), Tail(comps))
    ELSE walk(f, Append(node, Head(comps)), Tail(comps))

\* the node stat(path) finds, or NoNode
stat(f, path) ==
    IF path = <<>> THEN NoNode
    ELSE LET n == walk(f, IF os_path_isabs(path) THEN Root ELSE Cwd, components(path, <<>>))
         IN  IF n \in f.dirs THEN n
             ELSE IF n \in DOMAIN f.files \cup f.bad /\ ~endswith(path, SLASH) THEN n
             ELSE NoNode

os_path_exists(f, path) == stat(f, path) # NoNode

os_path_isdir(f, path) == stat(f, path) \in f.dirs

IsValidDir(f, path) == os_path_exists(f, path) /\ os_path_isdir(f, path)

(***************************************************************************)
(* Log records and results.                                                *)
(***************************************************************************)
warning(msg, path) == [level |-> "warning", msg |-> msg, path |-> path]

error(msg, path) == [level |-> "error", msg |-> msg, path |-> path]

\* what a resolver hands back: its return value and the records it logged
Res(ret, logs) == [ret |-> ret, logs |-> logs]

(***************************************************************************)
(* The four base resolvers.  e is os.environ, f the filesystem.            *)
(***************************************************************************)
find_hf_home_dir(e, f) ==
    LET r1 == e["HF_HOME"]
        ok1 == "HF_HOME" \in DOMAIN e /\ IsValidDir(f, r1)
        l1 == IF "HF_HOME" \in DOMAIN e
              THEN <<warning("Invalid HF_HOME directory", r1)>> ELSE <<>>
        r2 == os_path_join(<<os_path_expanduser(e), DotCache, Huggingface>>)
    IN  IF ok1 THEN Res(r1, <<>>)
        ELSE IF IsValidDir(f, r2) THEN Res(r2, l1)
        ELSE Res(None, Append(l1, warning("Invalid default HuggingFace home directory", r2)))

\* find_hf_hub_dir with the HF_HOME candidate examined before HUGGINGFACE_HUB_CACHE
find_hf_hub_dir_home_first(e, f) ==
    LET r1 == e["HUGGINGFACE_HUB_CACHE"]
        ok1 == "HUGGINGFACE_HUB_CACHE" \in DOMAIN e /\ IsValidDir(f, r1)
        r2 == os_path_join(<<e["HF_HOME"], Hub>>)
        ok2 == "HF_HOME" \in DOMAIN e /\ IsValidDir(f, r2)
        l2 == IF "HF_HOME" \in DOMAIN e
              THEN <<warning("Invalid HF_HOME directory", r2)>> ELSE <<>>
        l1 == IF "HUGGINGFACE_HUB_CACHE" \in DOMAIN e
              THEN Append(l2, warning("Invalid HUGGINGFACE_HUB_CACHE directory", r1)) ELSE l2
        r3 == os_path_join(<<os_path_expanduser(e), DotCache, Huggingface, Hub>>)
    IN  IF ok2 THEN Res(r2, <<>>)
        ELSE IF ok1 THEN Res(r1, l2)
        ELSE IF IsValidDir(f, r3) THEN Res(r3, l1)
        ELSE Res(None, Append(l1, warning("Invalid default HuggingFace Hub directory", r3)))

\* find_hf_hub_dir without the HF_HOME candidate
find_hf_hub_dir_no_home(e, f) ==
    LET r1 == e["HUGGINGFACE_HUB_CACHE"]
        ok1 == "HUGGINGFACE_HUB_CACHE" \in DOMAIN e /\ IsValidDir(f, r1)
        l1 == IF "HUGGINGFACE_HUB_CACHE" \in DOMAIN e
              THEN <<warning("Invalid HUGGINGFACE_HUB_CACHE directory", r1)>> ELSE <<>>
        r3 == os_path_join(<<os_path_expanduser(e), DotCache, Huggingface, Hub>>)
    IN  IF ok1 THEN Res(r1, <<>>)
        ELSE IF IsValidDir(f, r3) THEN Res(r3, l1)
        ELSE Res(None, Append(l1, warning("Invalid default HuggingFace Hub directory", r3)))

find_hf_hub_dir(e, f) ==
    LET r1 == e["HUGGINGFACE_HUB_CACHE"]
        ok1 == "HUGGINGFACE_HUB_CACHE" \in DOMAIN e /\ IsValidDir(f, r1)
        l1 == IF "HUGGINGFACE_HUB_CACHE" \in DOMAIN e
              THEN <<warning("Invalid HUGGINGFACE_HUB_CACHE directory", r1)>> ELSE <<>>
        r2 == os_path_join(<<e["HF_HOME"], Hub>>)
        ok2 == "HF_HOME" \in DOMAIN e /\ IsValidDir(f, r2)
        l2 == IF "HF_HOME" \in DOMAIN e
              THEN Append(l1, warning("Invalid HF_HOME directory", r2)) ELSE l1
        r3 == os_path_join(<<os_path_expanduser(e), DotCache, Huggingface, Hub>>)
    IN  IF ok1 THEN Res(r1, <<>>)
        ELSE IF ok2 THEN Res(r2, l1)
        ELSE IF IsValidDir(f, r3) THEN Res(r3, l2)
        ELSE Res(None, Append(l2, warning("Invalid default HuggingFace Hub directory", r3)))

\* find_hf_datasets_dir with the HF_HOME candidate copied from find_hf_hub_dir: "hub"
find_hf_datasets_dir_hub(e, f) ==
    LET r1 == e["HF_DATASETS_CACHE"]
        ok1 == "HF_DATASETS_CACHE" \in DOMAIN e /\ IsValidDir(f, r1)
        l1 == IF "HF_DATASETS_CACHE" \in DOMAIN e
              THEN <<warning("Invalid HF_DATASETS_CACHE directory", r1)>> ELSE <<>>
        r2 == os_path_join(<<e["HF_HOME"], Hub>>)
        ok2 == "HF_HOME" \in DOMAIN e /\ IsValidDir(f, r2)
        l2 == IF "HF_HOME" \in DOMAIN e
              THEN Append(l1, warning("Invalid HF_HOME directory", r2)) ELSE l1
        r3 == os_path_join(<<os_path_expanduser(e), DotCache, Huggingface, Datasets>>)
    IN  IF ok1 THEN Res(r1, <<>>)
        ELSE IF ok2 THEN Res(r2, l1)
        ELSE IF IsValidDir(f, r3) THEN Res(r3, l2)
        ELSE Res(None, Append(l2, warning("Invalid default HuggingFace datasets directory", r3)))

find_hf_datasets_dir(e, f) ==
    LET r1 == e["HF_DATASETS_CACHE"]
        ok1 == "HF_DATASETS_CACHE" \in DOMAIN e /\ IsValidDir(f, r1)
        l1 == IF "HF_DATASETS_CACHE" \in DOMAIN e
              THEN <<warning("Invalid HF_DATASETS_CACHE directory", r1)>> ELSE <<>>
        r2 == os_path_join(<<e["HF_HOME"], Datasets>>)
        ok2 == "HF_HOME" \in DOMAIN e /\ IsValidDir(f, r2)
        l2 == IF "HF_HOME" \in DOMAIN e
              THEN Append(l1, warning("Invalid HF_HOME directory", r2)) ELSE l1
        r3 == os_path_join(<<os_path_expanduser(e), DotCache, Huggingface, Datasets>>)
    IN  IF ok1 THEN Res(r1, <<>>)
        ELSE IF ok2 THEN Res(r2, l1)
        ELSE IF IsValidDir(f, r3) THEN Res(r3, l2)
        ELSE Res(None, Append(l2, warning("Invalid default HuggingFace datasets directory", r3)))

\* find_xdg_cache_home with no record for an invalid XDG_CACHE_HOME
find_xdg_cache_home_silent(e, f) ==
    LET r1 == e["XDG_CACHE_HOME"]
        ok1 == "XDG_CACHE_HOME" \in DOMAIN e /\ IsValidDir(f, r1)
        r2 == os_path_join(<<os_path_expanduser(e), DotCache>>)
    IN  IF ok1 THEN Res(r1, <<>>)
        ELSE IF IsValidDir(f, r2) THEN Res(r2, <<>>)
        ELSE Res(None, <<warning("Invalid default XDG cache directory", r2)>>)

find_xdg_cache_home(e, f) ==
    LET r1 == e["XDG_CACHE_HOME"]
        ok1 == "XDG_CACHE_HOME" \in DOMAIN e /\ IsValidDir(f, r1)
        l1 == IF "XDG_CACHE_HOME" \in DOMAIN e
              THEN <<warning("Invalid XDG_CACHE_HOME directory", r1)>> ELSE <<>>
        r2 == os_path_join(<<os_path_expanduser(e), DotCache>>)
    IN  IF ok1 THEN Res(r1, <<>>)
        ELSE IF IsValidDir(f, r2) THEN Res(r2, l1)
        ELSE Res(None, Append(l1, warning("Invalid default XDG cache directory", r2)))

(***************************************************************************)
(* The snapshot resolvers.                                                 *)
(***************************************************************************)
\* text mode with newline=None: "\r\n" and "\r" are read as "\n"
RECURSIVE universal_newlines(_)
universal_newlines(s) ==
    IF s = <<>> THEN <<>>
    ELSE IF Head(s) = CR
         THEN <<NL>> \o universal_newlines(IF Len(s) > 1 /\ s[2] = NL THEN SubSeq(s, 3, Len(s))
                                           ELSE Tail(s))
         ELSE <<Head(s)>> \o universal_newlines(Tail(s))

\* open(path, "w+"): the file is created or emptied before it is read
open_read_truncating(f, path) ==
    LET n == stat(f, path)
    IN  IF n \in DOMAIN f.files /\ ~endswith(path, SLASH)
        THEN [raised |-> FALSE, data |-> <<>>,
              fs |-> [f EXCEPT !.files = [f.files EXCEPT ![n] = <<>>]]]
        ELSE [raised |-> TRUE, data |-> <<>>, fs |-> f]

\* the read wrapped in try/except: a file that cannot be read reads as empty
open_read_lenient(f, path) ==
    LET n == stat(f, path)
    IN  IF n \in DOMAIN f.files /\ ~endswith(path, SLASH)
        THEN [raised |-> FALSE, data |-> universal_newlines(f.files[n]), fs |-> f]
        ELSE [raised |-> FALSE, data |-> <<>>, fs |-> f]

\* open(path, "r", encoding="utf-8") and f.read(): the text, or a raised OSError /
\* UnicodeDecodeError; the filesystem after the call is the filesystem before it
open_read(f, path) ==
    LET n == stat(f, path)
    IN  IF n \in DOMAIN f.files /\ ~endswith(path, SLASH)
        THEN [raised |-> FALSE, data |-> universal_newlines(f.files[n]), fs |-> f]
        ELSE [raised |-> TRUE, data |-> <<>>, fs |-> f]

\* what a snapshot resolver hands back: return value (None also when it raised), log
\* records, whether it raised, whether it reached open(), the filesystem it leaves
Out(ret, logs, raised, opened, f) ==
    [ret |-> ret, logs |-> logs, raised |-> raised, opened |-> opened, fs |-> f]

\* the fallback chain that opens find_model_dir and find_datasets_dir: the base directory,
\* or None, and the records logged;
\* first is the result of find_hf_hub_dir / find_hf_datasets_dir, sub is "hub" / "datasets"
base_dir_of(e, f, first, sub) ==
    LET hf_home == find_hf_home_dir(e, f)
        xdg_cache_home == find_xdg_cache_home(e, f)
    IN  IF first.ret # None THEN first
        ELSE IF hf_home.ret # None
             THEN Res(os_path_join(<<hf_home.ret, sub>>), first.logs \o hf_home.logs)
        ELSE IF xdg_cache_home.ret # None
             THEN Res(os_path_join(<<xdg_cache_home.ret, Huggingface, sub>>),
                      first.logs \o hf_home.logs \o xdg_cache_home.logs)
        ELSE Res(None, Append(first.logs \o hf_home.logs \o xdg_cache_home.logs,
                              error("Could not find a suitable cache directory.", <<>>)))

\* snapshot_of without the check that the repository directory exists
snapshot_of_unchecked(f, base, prefix, ident, what1, what2) ==
    LET repo_path == prefix \o str_replace(ident, SLASH, DashDash)
        repo_dir == os_path_join(<<base.ret, repo_path>>)
        rd == open_read(f, os_path_join(<<repo_dir, Refs, Main>>))
        oid == str_replace(rd.data, NL, <<>>)
        lfs_dir == os_path_join(<<repo_dir, Snapshots, oid>>)
    IN  IF base.ret = None THEN Out(None, base.logs, FALSE, FALSE, f)
        ELSE IF rd.raised THEN Out(None, base.logs, TRUE, TRUE, rd.fs)
        ELSE IF ~os_path_exists(rd.fs, lfs_dir)
             THEN Out(None, Append(base.logs, error(what2, lfs_dir)), FALSE, TRUE, rd.fs)
        ELSE Out(lfs_dir, base.logs, FALSE, TRUE, rd.fs)

\* find_model_dir from line 146 and find_datasets_dir from line 197, from the base
\* directory on; the source tests the existence of the repository directory twice in a
\* row, which is one test here
snapshot_of(f, base, prefix, ident, what1, what2) ==
    LET repo_path == prefix \o str_replace(ident, SLASH, DashDash)
        repo_dir == os_path_join(<<base.ret, repo_path>>)
        rd == open_read(f, os_path_join(<<repo_dir, Refs, Main>>))
        oid == str_replace(rd.data, NL, <<>>)
        lfs_dir == os_path_join(<<repo_dir, Snapshots, oid>>)
    IN  IF base.ret = None THEN Out(None, base.logs, FALSE, FALSE, f)
        ELSE IF ~os_path_exists(f, repo_dir)
             THEN Out(None, Append(base.logs, error(what1, repo_dir)), FALSE, FALSE, f)
        ELSE IF rd.raised THEN Out(None, base.logs, TRUE, TRUE, rd.fs)
        ELSE IF ~os_path_exists(rd.fs, lfs_dir)
             THEN Out(None, Append(base.logs, error(what2, lfs_dir)), FALSE, TRUE, rd.fs)
        ELSE Out(lfs_dir, base.logs, FALSE, TRUE, rd.fs)

find_model_dir(e, f, model) ==
    snapshot_of(f, base_dir_of(e, f, find_hf_hub_dir(e, f), Hub),
                ModelsPrefix, model, "Model directory not found", "Model directory not found")

find_datasets_dir(e, f, datasets) ==
    snapshot_of(f, base_dir_of(e, f, find_hf_datasets_dir(e, f), Datasets),
                DatasetsPrefix, datasets, "Dataset directory not found",
                "Datasets directory not found")

(***************************************************************************)
(* The environments and filesystems the operations are run on.             *)
(***************************************************************************)
EnvVars == {"HF_HOME", "HUGGINGFACE_HUB_CACHE", "HF_DATASETS_CACHE", "XDG_CACHE_HOME", "HOME"}

AbsE == <<SLASH, "e">>
AbsESlash == <<SLASH, "e", SLASH>>
RelR == <<"r">>
Empty == <<>>

cH == <<"h">>
cE == <<"e">>
cR == <<"r">>
cX == <<"x">>

\* every prefix of a node is a directory (mkdir -p)
Ancestors(node) == {SubSeq(node, 1, k) : k \in 0..Len(node)}

MkFs(leaves, files, bad) ==
    [dirs |-> {Root} \cup Ancestors(Cwd)
              \cup UNION {Ancestors(n) : n \in leaves}
              \cup UNION {Ancestors(SubSeq(n, 1, Len(n) - 1)) : n \in DOMAIN files \cup bad},
     files |-> files,
     bad |-> bad]

\* all strings over an alphabet, up to a length
RECURSIVE StringsUpTo(_, _)
StringsUpTo(alphabet, n) ==
    IF n = 0 THEN {<<>>}
    ELSE LET shorter == StringsUpTo(alphabet, n - 1)
         IN  shorter \cup {Append(s, c) : s \in shorter, c \in alphabet}

\* the identifiers callers pass
Identifiers == StringsUpTo({"a", SLASH}, MaxIdLen)

\* the texts a pointer file holds
Contents == StringsUpTo({"x", NL, CR, " ", SLASH}, MaxContentLen)

\* environments: any of the variables set, each to one of a few values
EnvChoices(v) ==
    CASE v = "HF_HOME" -> {Empty, AbsE, AbsESlash, RelR}
      [] v = "HOME" -> {AbsESlash}
      [] OTHER -> {AbsE, RelR}

Envs(maxset) ==
    UNION {{e \in [D -> {Empty, AbsE, AbsESlash, RelR}] : \A v \in D : e[v] \in EnvChoices(v)} :
           D \in {D \in SUBSET EnvVars : Cardinality(D) <= maxset}}

\* directory trees: under the default home /h, under /e, under the working directory
HomeTrees ==
    {{}, {<<cH, DotCache>>}, {<<cH, DotCache, Huggingface>>},
     {<<cH, DotCache, Huggingface, Hub>>, <<cH, DotCache, Huggingface, Datasets>>}}

ETrees ==
    {{}, {<<cE>>}, {<<cE, Hub>>, <<cE, Datasets>>},
     {<<cE, DotCache, Huggingface, Hub>>, <<cE, DotCache, Huggingface, Datasets>>}}

CwdTrees ==
    {{}, {Cwd \o <<cR>>}, {Cwd \o <<cR, Hub>>, Cwd \o <<cR, Datasets>>},
     {Cwd \o <<Hub>>, Cwd \o <<Datasets>>}}

\* the places a hub or datasets cache can be; sub is Hub or Datasets
BaseNodes(sub) ==
    {<<cH, DotCache, Huggingface, sub>>, <<cE>>, <<cE, sub>>, <<cE, Huggingface, sub>>,
     Cwd \o <<cR>>, Cwd \o <<cR, sub>>, Cwd \o <<sub>>, <<cE, DotCache, Huggingface, sub>>}

\* the identifier with each "/" written as "--", built position by position
RECURSIVE Flatten(_)
Flatten(ss) == IF ss = <<>> THEN <<>> ELSE Head(ss) \o Flatten(Tail(ss))

SlashesAsDashes(ident) ==
    Flatten([i \in 1..Len(ident) |-> IF ident[i] = SLASH THEN <<"-", "-">> ELSE <<ident[i]>>])

\* how much of a repository a cache holds
Stages ==
    {"no base", "base is a file", "no repo", "repo is a file", "no refs",
     "main undecodable", "main is a directory", "no snapshot", "complete"}

NoFiles == <<>>

\* a cache at node b holding, as far as stage says, the repository directory repo
\* with pointer text c and the snapshot directory x; /e exists once a pointer does
RepoFs(b, repo, stage, c) ==
    LET r == Append(b, repo)
        main == r \o <<Refs, Main>>
        snap == r \o <<Snapshots, cX>>
    IN  CASE stage = "no base" -> MkFs({SubSeq(b, 1, Len(b) - 1)}, NoFiles, {})
          [] stage = "base is a file" -> MkFs({}, (b :> <<"x">>), {})
          [] stage = "no repo" -> MkFs({b}, NoFiles, {})
          [] stage = "repo is a file" -> MkFs({}, (r :> <<"x">>), {})
          [] stage = "no refs" -> MkFs({snap}, NoFiles, {})
          [] stage = "main undecodable" -> MkFs({snap}, NoFiles, {main})
          [] stage = "main is a directory" -> MkFs({snap, main}, NoFiles, {})
          [] stage = "no snapshot" -> MkFs({<<cE>>}, (main :> c), {})
          [] stage = "complete" -> MkFs({snap, <<cE>>}, (main :> c), {})

Kinds == {[sub |-> Hub, prefix |-> ModelsPrefix], [sub |-> Datasets, prefix |-> DatasetsPrefix]}

\* caches in every place, under every environment with one variable set
PlacedRepos ==
    UNION {{[env |-> e, fs |-> RepoFs(b, k.prefix \o <<"a">>, st, c),
             asked |-> {<<"a">>, <<"a", SLASH, "a">>}] :
               e \in Envs(1), b \in BaseNodes(k.sub),
               st \in {"base is a file", "no repo", "no refs", "no snapshot", "complete"},
               c \in {<<"x", NL>>, <<SLASH, "e", NL>>}} : k \in Kinds}

\* one cache, every stage and every pointer text
PointerTexts ==
    {[env |-> ("HUGGINGFACE_HUB_CACHE" :> AbsE) @@ ("HF_DATASETS_CACHE" :> AbsE),
      fs |-> RepoFs(<<cE>>, k.prefix \o <<"a">>, st, c),
      asked |-> {<<"a">>}] :
        k \in Kinds, st \in Stages, c \in Contents}

\* one cache, a repository for every identifier
NamedRepos ==
    {[env |-> ("HF_HOME" :> AbsE),
      fs |-> RepoFs(<<cE, k.sub>>, k.prefix \o SlashesAsDashes(ident), "complete", <<"x", NL>>),
      asked |-> {ident}] :
        k \in Kinds, ident \in Identifiers}

RepoScenarios == PlacedRepos \cup PointerTexts \cup NamedRepos

\* directory trees with no repository in them, under every environment with two variables set
DirScenarios ==
    {[env |-> e, fs |-> MkFs(h \cup t \cup w, NoFiles, {}), asked |-> {}] :
        e \in Envs(2), h \in HomeTrees, t \in ETrees, w \in CwdTrees}
    \cup
    \* the same with a regular file at /e, where a directory is looked for
    {[env |-> e, fs |-> MkFs(h \cup w, (<<cE>> :> <<"x">>), {}), asked |-> {}] :
        e \in Envs(2), h \in HomeTrees, w \in CwdTrees}

InitialCall == [ret |-> None, logs |-> <<>>, raised |-> FALSE, opened |-> FALSE]

InitWith(scenarios) ==
    /\ \E sc \in scenarios : env = sc.env /\ fs = sc.fs /\ asked = sc.asked
    /\ env0 = env
    /\ fs0 = fs
    /\ op = "none"
    /\ arg = <<>>
    /\ out = InitialCall

(***************************************************************************)
(* The operations, one action each.                                        *)
(***************************************************************************)
\* a base resolver neither raises nor opens a file nor touches the filesystem
Resolved(name, r) ==
    /\ op' = name
    /\ arg' = <<>>
    /\ out' = [ret |-> r.ret, logs |-> r.logs, raised |-> FALSE, opened |-> FALSE]
    /\ UNCHANGED <<env, fs, env0, fs0, asked>>

Snapshot(name, ident, r) ==
    /\ op' = name
    /\ arg' = ident
    /\ out' = [ret |-> r.ret, logs |-> r.logs, raised |-> r.raised, opened |-> r.opened]
    /\ fs' = r.fs
    /\ UNCHANGED <<env, env0, fs0, asked>>

FindHfHomeDir == Resolved("find_hf_home_dir", find_hf_home_dir(env, fs))

FindHfHubDir == Resolved("find_hf_hub_dir", find_hf_hub_dir(env, fs))

FindHfDatasetsDir == Resolved("find_hf_datasets_dir", find_hf_datasets_dir(env, fs))

FindXdgCacheHome == Resolved("find_xdg_cache_home", find_xdg_cache_home(env, fs))

FindModelDir ==
    \E model \in asked : Snapshot("find_model_dir", model, find_model_dir(env, fs, model))

FindDatasetsDir ==
    \E datasets \in asked :
        Snapshot("find_datasets_dir", datasets, find_datasets_dir(env, fs, datasets))

Init == InitWith(RepoScenarios)

Next ==
    \/ FindHfHomeDir
    \/ FindHfHubDir
    \/ FindHfDatasetsDir
    \/ FindXdgCacheHome
    \/ FindModelDir
    \/ FindDatasetsDir

Spec == Init /\ [][Next]_vars

\* the four base resolvers alone, on directory trees
InitDirs == InitWith(DirScenarios)

NextDirs ==
    \/ FindHfHomeDir
    \/ FindHfHubDir
    \/ FindHfDatasetsDir
    \/ FindXdgCacheHome

SpecDirs == InitDirs /\ [][NextDirs]_vars

(***************************************************************************)
(* Vocabulary of the properties.                                           *)
(***************************************************************************)
BaseOps == {"find_hf_home_dir", "find_hf_hub_dir", "find_hf_datasets_dir", "find_xdg_cache_home"}

SnapshotOps == {"find_model_dir", "find_datasets_dir"}

PrimaryVar(o) ==
    CASE o = "find_hf_home_dir" -> "HF_HOME"
      [] o = "find_hf_hub_dir" -> "HUGGINGFACE_HUB_CACHE"
      [] o = "find_hf_datasets_dir" -> "HF_DATASETS_CACHE"
      [] o = "find_xdg_cache_home" -> "XDG_CACHE_HOME"

\* the sub-directory of HF_HOME a resolver looks at, for the two that do
SubOf(o) == IF o \in {"find_hf_hub_dir", "find_model_dir"} THEN Hub ELSE Datasets

HasSecondary(o) == o \in {"find_hf_hub_dir", "find_hf_datasets_dir"}

DefaultOf(o, e) ==
    CASE o = "find_hf_home_dir" -> os_path_join(<<os_path_expanduser(e), DotCache, Huggingface>>)
      [] o = "find_xdg_cache_home" -> os_path_join(<<os_path_expanduser(e), DotCache>>)
      [] OTHER -> os_path_join(<<os_path_expanduser(e), DotCache, Huggingface, SubOf(o)>>)

\* the candidates of a base resolver, in the order it examines them
Candidates(o, e) ==
    (IF PrimaryVar(o) \in DOMAIN e THEN <<e[PrimaryVar(o)]>> ELSE <<>>)
    \o (IF HasSecondary(o) /\ "HF_HOME" \in DOMAIN e
        THEN <<os_path_join(<<e["HF_HOME"], SubOf(o)>>)>> ELSE <<>>)
    \o <<DefaultOf(o, e)>>

IsDirectory(f, path) == os_path_isdir(f, path)

\* the candidates examined: up to and including the first that is a directory
Examined(o, e, f) ==
    LET cs == Candidates(o, e)
        hits == {i \in 1..Len(cs) : IsDirectory(f, cs[i])}
        first == IF hits = {} THEN Len(cs) ELSE CHOOSE i \in hits : \A j \in hits : i <= j
    IN  SubSeq(cs, 1, first)

PrimaryInvalid(o) == PrimaryVar(o) \notin DOMAIN env \/ ~IsDirectory(fs, env[PrimaryVar(o)])

(***************************************************************************)
(* C1: a base resolver whose primary variable names an existing directory  *)
(* returns exactly that value, whatever the other candidates are.          *)
(***************************************************************************)
C1_PrimaryWins ==
    (op \in BaseOps /\ ~PrimaryInvalid(op)) => out.ret = env[PrimaryVar(op)]

C1_Witness ==
    /\ op = "find_hf_hub_dir"
    /\ ~PrimaryInvalid(op)
    /\ "HF_HOME" \in DOMAIN env
    /\ IsDirectory(fs, os_path_join(<<env["HF_HOME"], Hub>>))
    /\ IsDirectory(fs, DefaultOf(op, env))
    /\ out.ret = env["HUGGINGFACE_HUB_CACHE"]

(***************************************************************************)
(* C2, as stated: for the hub and datasets resolvers, when the primary     *)
(* variable is unset or invalid and HF_HOME names an existing directory,   *)
(* the result is HF_HOME joined with hub / datasets.                       *)
(***************************************************************************)
C2_AsStated ==
    (/\ HasSecondary(op)
     /\ PrimaryInvalid(op)
     /\ "HF_HOME" \in DOMAIN env
     /\ IsDirectory(fs, env["HF_HOME"]))
    => out.ret = os_path_join(<<env["HF_HOME"], SubOf(op)>>)

(***************************************************************************)
(* C2, amended: for the hub and datasets resolvers, when the primary       *)
(* variable is unset or invalid, HF_HOME is set and HF_HOME joined with    *)
(* hub / datasets is an existing directory, the result is that joined path.*)
(***************************************************************************)
C2_SecondaryWins ==
    (/\ HasSecondary(op)
     /\ PrimaryInvalid(op)
     /\ "HF_HOME" \in DOMAIN env
     /\ IsDirectory(fs, os_path_join(<<env["HF_HOME"], SubOf(op)>>)))
    => out.ret = os_path_join(<<env["HF_HOME"], SubOf(op)>>)

C2_Witness ==
    /\ op = "find_hf_datasets_dir"
    /\ "HF_DATASETS_CACHE" \in DOMAIN env
    /\ PrimaryInvalid(op)
    /\ "HF_HOME" \in DOMAIN env
    /\ IsDirectory(fs, DefaultOf(op, env))
    /\ out.ret = os_path_join(<<env["HF_HOME"], Datasets>>)
    /\ IsDirectory(fs, out.ret)

(***************************************************************************)
(* C3: a base resolver never raises, returns None exactly when none of its *)
(* candidates is an existing directory, and logs one record for every      *)
(* candidate it examined and found invalid.                                *)
(***************************************************************************)
C3_AbsenceAndLogs ==
    op \in BaseOps =>
        LET ex == Examined(op, env, fs)
        IN  /\ ~out.raised
            /\ (out.ret = None) <=> (\A i \in 1..Len(ex) : ~IsDirectory(fs, ex[i]))
            /\ Len(out.logs) = Cardinality({i \in 1..Len(ex) : ~IsDirectory(fs, ex[i])})
            /\ \A i \in 1..Len(out.logs) : out.logs[i].path = ex[i]

C3_Witness ==
    /\ op = "find_hf_datasets_dir"
    /\ "HF_DATASETS_CACHE" \in DOMAIN env
    /\ "HF_HOME" \in DOMAIN env
    /\ out.ret = None
    /\ Len(out.logs) = 3

(***************************************************************************)
(* Vocabulary of the properties of the snapshot resolvers.                 *)
(***************************************************************************)
PrefixOf(o) == IF o = "find_model_dir" THEN ModelsPrefix ELSE DatasetsPrefix

\* the base directory the call settles on (None when it found none)
BaseOf(o, e, f) ==
    base_dir_of(e, f, IF o = "find_model_dir" THEN find_hf_hub_dir(e, f)
                      ELSE find_hf_datasets_dir(e, f), SubOf(o)).ret

\* B/<repo-name>, with the name written as the specification writes it
RepoDirOf(o, ident, e, f) ==
    os_path_join(<<BaseOf(o, e, f), PrefixOf(o) \o SlashesAsDashes(ident)>>)

PointerOf(o, ident, e, f) == os_path_join(<<RepoDirOf(o, ident, e, f), Refs, Main>>)

\* the pointer file is a regular file holding text
Readable(f, path) == stat(f, path) \in DOMAIN f.files

TextOf(f, path) == universal_newlines(f.files[stat(f, path)])

RepoPresent(o, ident, e, f) ==
    BaseOf(o, e, f) # None /\ os_path_exists(f, RepoDirOf(o, ident, e, f))

WhiteSpace == {NL, CR, " ", "\t"}

\* the text without its trailing whitespace
RECURSIVE RStripped(_)
RStripped(s) ==
    IF s # <<>> /\ s[Len(s)] \in WhiteSpace THEN RStripped(SubSeq(s, 1, Len(s) - 1)) ELSE s

HasNewline(s) == \E i \in 1..Len(s) : s[i] = NL

\* the snapshot path a call worked out: what it returned, or what it logged as missing
SnapshotPathSeen ==
    IF out.ret # None THEN out.ret ELSE out.logs[Len(out.logs)].path

(***************************************************************************)
(* C4: the repository directory is the prefix followed by the identifier   *)
(* with every "/" written "--"; when the base resolves to B, B/<repo>      *)
(* exists, its refs/main holds X and a newline, and B/<repo>/snapshots/X   *)
(* exists, the call returns B/<repo>/snapshots/X.                          *)
(***************************************************************************)
C4_SnapshotReturned ==
    op \in SnapshotOps =>
        LET R == RepoDirOf(op, arg, env, fs)
            P == PointerOf(op, arg, env, fs)
            X == SubSeq(TextOf(fs, P), 1, Len(TextOf(fs, P)) - 1)
        IN  (/\ RepoPresent(op, arg, env, fs)
             /\ Readable(fs, P)
             /\ TextOf(fs, P) = X \o <<NL>>
             /\ ~HasNewline(X)
             /\ os_path_exists(fs, os_path_join(<<R, Snapshots, X>>)))
            => out.ret = os_path_join(<<R, Snapshots, X>>)

C4_Witness ==
    /\ op = "find_model_dir"
    /\ arg = <<"a", SLASH, "a">>
    /\ "HF_HOME" \in DOMAIN env
    /\ out.ret = env["HF_HOME"] \o <<SLASH>> \o Hub \o <<SLASH>> \o ModelsPrefix
                 \o <<"a", "-", "-", "a">> \o <<SLASH>> \o Snapshots \o <<SLASH, "x">>

(***************************************************************************)
(* C5: when the repository directory does not exist the call returns None  *)
(* without opening the pointer file and without raising.                   *)
(***************************************************************************)
C5_NoReadBeforeCheck ==
    (/\ op \in SnapshotOps
     /\ BaseOf(op, env, fs) # None
     /\ ~os_path_exists(fs, RepoDirOf(op, arg, env, fs)))
    => (out.ret = None /\ ~out.opened /\ ~out.raised)

C5_Witness ==
    /\ op = "find_datasets_dir"
    /\ BaseOf(op, env, fs) # None
    /\ ~os_path_exists(fs, RepoDirOf(op, arg, env, fs))
    /\ out.ret = None
    /\ ~out.opened
    /\ Len(out.logs) > 0
    /\ out.logs[Len(out.logs)].path = RepoDirOf(op, arg, env, fs)

(***************************************************************************)
(* C6: a snapshot resolver raises exactly when the repository directory    *)
(* exists and its refs/main is missing or unreadable; with no base         *)
(* directory, no repository directory or no snapshot directory it returns  *)
(* None and does not raise.                                                *)
(***************************************************************************)
C6_RaisesOnlyOnPointer ==
    op \in SnapshotOps =>
        LET R == RepoDirOf(op, arg, env, fs)
            P == PointerOf(op, arg, env, fs)
            present == RepoPresent(op, arg, env, fs)
            oid == str_replace(TextOf(fs, P), NL, <<>>)
        IN  /\ out.raised <=> (present /\ ~Readable(fs, P))
            /\ (\/ ~present
                \/ Readable(fs, P) /\ ~os_path_exists(fs, os_path_join(<<R, Snapshots, oid>>)))
               => (out.ret = None /\ ~out.raised)

C6_Witness ==
    /\ op \in SnapshotOps
    /\ out.raised
    /\ RepoPresent(op, arg, env, fs)
    /\ os_path_isdir(fs, PointerOf(op, arg, env, fs))

(***************************************************************************)
(* C7: the object identifier put into the snapshot path is the text of     *)
(* refs/main with all trailing whitespace removed and every other          *)
(* character kept.                                                         *)
(***************************************************************************)
C7_TrailingWhitespaceStripped ==
    (/\ op \in SnapshotOps
     /\ RepoPresent(op, arg, env, fs)
     /\ Readable(fs, PointerOf(op, arg, env, fs)))
    => SnapshotPathSeen = os_path_join(<<RepoDirOf(op, arg, env, fs), Snapshots,
                                         RStripped(TextOf(fs, PointerOf(op, arg, env, fs)))>>)

(***************************************************************************)
(* C8: whenever a snapshot resolver returns a path, the path is absolute.  *)
(***************************************************************************)
C8_ResultAbsolute ==
    (op \in SnapshotOps /\ out.ret # None) => os_path_isabs(out.ret)

(***************************************************************************)
(* C9: no operation changes the environment or the filesystem, and every   *)
(* call returns what it would have returned as the first call.             *)
(***************************************************************************)
FirstCall(o, a, e, f) ==
    LET r == CASE o = "find_hf_home_dir" -> find_hf_home_dir(e, f)
               [] o = "find_hf_hub_dir" -> find_hf_hub_dir(e, f)
               [] o = "find_hf_datasets_dir" -> find_hf_datasets_dir(e, f)
               [] o = "find_xdg_cache_home" -> find_xdg_cache_home(e, f)
               [] o = "find_model_dir" -> find_model_dir(e, f, a)
               [] o = "find_datasets_dir" -> find_datasets_dir(e, f, a)
    IN  [ret |-> r.ret, logs |-> r.logs,
         raised |-> o \in SnapshotOps /\ r.raised, opened |-> o \in SnapshotOps /\ r.opened]

C9_NothingChanges ==
    /\ env = env0
    /\ fs = fs0
    /\ op # "none" => out = FirstCall(op, arg, env0, fs0)

C9_Witness ==
    /\ op = "find_model_dir"
    /\ out.opened
    /\ out.ret # None
    /\ fs = fs0
    /\ env = env0

(***************************************************************************)
(* C10, as stated: when the hub (datasets) resolver returns None and       *)
(* find_hf_home_dir returns H, H/hub (H/datasets) is not a directory and   *)
(* the call returns None; so every path returned when the hub (datasets)   *)
(* resolver returns None lies under <find_xdg_cache_home()>/huggingface/hub*)
(* (/huggingface/datasets).                                                *)
(***************************************************************************)
FirstResolver(o, e, f) ==
    IF o = "find_model_dir" THEN find_hf_hub_dir(e, f) ELSE find_hf_datasets_dir(e, f)

XdgBase(o, e, f) == os_path_join(<<find_xdg_cache_home(e, f).ret, Huggingface, SubOf(o)>>)

HomeFallbackDead(o, e, f) ==
    LET H == find_hf_home_dir(e, f).ret
    IN  H # None => (~IsDirectory(f, os_path_join(<<H, SubOf(o)>>)) /\ out.ret = None /\ ~out.raised)

====
